---- MODULE Spec2Model ----
(***************************************************************************)
(* Model of the one-click-update demo: the mock GCC Control Endpoint       *)
(* (src/mock-gcc/mock_gcc.py) and the WrkTalk deployment agent             *)
(* (src/wrktalk-agent/agent.py).                                           *)
(*                                                                         *)
(* Python values are represented as follows: a dict is a function whose    *)
(* DOMAIN is the set of its keys; the result of dict.get on a missing key  *)
(* is the string NoneKey; an absent object (pending_update = None, a poll  *)
(* that returned None) is the record None.  The wall clock is counted in   *)
(* whole seconds; any number of requests may be served within one second.  *)
(***************************************************************************)
EXTENDS Integers, Sequences, FiniteSets, TLC

VARIABLES
    pending_update,     \* mock_gcc.py: the pending slot (None or a request)
    deployment_status,  \* mock_gcc.py: dict deployment_id -> last report
    now,                \* datetime.now(), in seconds
    request,            \* history: the last request the endpoint served, with
                        \*   what the handler of a report found (slot, old entry)
    response,           \* history: the body of the response to that request
    triggered,          \* history: the request of the most recent trigger call
    handler,            \* mock_gcc.py get_updates: a handler run step by step
                        \*   (None when no such handler is in flight)
    pc,                 \* agent.py: the agent's position in main/execute_deployment
    update_data,        \* agent.py main: what poll_for_updates returned
    deployment_id,      \* agent.py execute_deployment: local
    target_tag,         \* agent.py execute_deployment: local
    attempt,            \* agent.py execute_deployment: finished loop iterations
    result,             \* agent.py execute_deployment: the last subprocess result
    error,              \* agent.py execute_deployment: str(e) of the raised exception
    consecutive_errors, \* agent.py main: local
    reports,            \* history: payloads the agent posted in the last attempt
    tool_calls          \* history: tool invocations of the last attempt, per step

gcc_state == <<pending_update, deployment_status>>
gcc_io == <<request, response, triggered>>
gcc_vars == <<pending_update, deployment_status, now, request, response, triggered,
              handler>>
agent_vars == <<pc, update_data, deployment_id, target_tag, attempt, result, error,
                consecutive_errors, reports, tool_calls>>
vars == <<pending_update, deployment_status, now, request, response, triggered,
          handler, pc, update_data, deployment_id, target_tag, attempt, result, error,
          consecutive_errors, reports, tool_calls>>

----------------------------------------------------------------------------
(* Bounds of the model *)

MaxNow == 1
MaxErrors == 2
\* failed attempts in a row, in the scenario of a tool that keeps failing
MaxFailures == 11

----------------------------------------------------------------------------
(* Python values *)

None == [none |-> TRUE]
NoneKey == "None"
Absent == "<absent>"

\* dict.get(k): the value, or None when the key is missing
Get(d, k) == IF k \in DOMAIN d THEN d[k] ELSE NoneKey

\* a one-entry dict, or the empty dict when the field is left out
Opt(k, v) == IF v = Absent THEN <<>> ELSE (k :> v)

\* datetime.now().strftime('%Y%m%d%H%M%S'): the digits of the second
strftime(t) == ToString(t)

\* datetime.now().isoformat()
isoformat(t) == "T" \o ToString(t)

\* the tool-invocation log of an attempt that has not called the tool yet
NoCalls == [set |-> 0, sync |-> 0, get |-> 0]

----------------------------------------------------------------------------
(* Inputs *)

ClientIds == {101, 102}
Tags == {"v2.0.0", "v2.1.0"}
DefaultTag == "v2.0.0"
Statuses == {"in_progress", "success", "failed"}
\* the id a reporting client may name: that of the first second
ReportIds == {"dpl-" \o strftime(0)}

\* bodies of POST /admin/trigger-deployment: {"image_tag": t} or {}
TriggerBodies == {Opt("image_tag", t) : t \in Tags \cup {Absent}}

\* bodies of POST /clients/<id>/status sent by an arbitrary client
\* (deployed_version accompanies success only, as in the documented payload)
ReportBodies ==
    {Opt("deployment_id", d) @@ Opt("status", s) @@ Opt("deployed_version", v)
        : d \in ReportIds \cup {Absent},
          s \in Statuses \cup {Absent},
          v \in {Absent}}
    \cup
    {Opt("deployment_id", d) @@ [status |-> "success", deployed_version |-> DefaultTag]
        : d \in ReportIds \cup {Absent}}

\* results of argocd app set / app sync: exit code and stderr
CommandOk == {[returncode |-> 0, stdout |-> [text |-> ""], stderr |-> ""]}
CommandResults ==
    CommandOk \cup {[returncode |-> 1, stdout |-> [text |-> ""], stderr |-> "rpc error"]}

\* the application status argocd app get -o json prints
SyncLabels == {"Synced", "Progressing"}
HealthLabels == {"Healthy", "Progressing", "Degraded"}
AppStatus(s, h) == [status |-> [sync |-> [status |-> s], health |-> [status |-> h]]]

\* results of argocd app get: a status document, JSON without a status,
\* output that is no JSON, or a non-zero exit
StatusResults ==
    {[returncode |-> 0, stdout |-> [json |-> AppStatus(s, h)], stderr |-> ""]
        : s \in SyncLabels, h \in HealthLabels}
\* the two states of a rollout that goes well: still going on, done
RolloutResults ==
    {[returncode |-> 0, stdout |-> [json |-> AppStatus(sh[1], sh[2])], stderr |-> ""]
        : sh \in {<<"Progressing", "Progressing">>, <<"Synced", "Healthy">>}}
QueryResults ==
    StatusResults
    \cup
    {[returncode |-> 0, stdout |-> [json |-> [metadata |-> "app"]], stderr |-> ""],
     [returncode |-> 0, stdout |-> [text |-> "<html>"], stderr |-> ""],
     [returncode |-> 1, stdout |-> [text |-> ""], stderr |-> "rpc error"]}

\* str(e) of json.loads on output that is no JSON
JSONDecodeError == "Expecting value: line 1 column 1 (char 0)"

----------------------------------------------------------------------------
(* Control Endpoint: the handlers of mock_gcc.py, one request at a time.   *)
(* Each handler is the effect of one request on the endpoint's two globals; *)
(* the response body is a function of the state the handler saw.            *)

\* (mutant) the announcement carries the default tag, not the tag of the request
get_updates_default_tag(client_id) ==
    IF pending_update # None
    THEN [has_update |-> TRUE,
          deployment_id |-> pending_update["deployment_id"],
          component |-> "backend",
          target_version |-> [tag |-> DefaultTag],
          action |-> "deploy"]
    ELSE [has_update |-> FALSE]

\* (mutant) the pending request is announced to the first client only
get_updates_first_client(client_id) ==
    IF pending_update # None /\ \A c \in ClientIds : client_id <= c
    THEN [has_update |-> TRUE,
          deployment_id |-> pending_update["deployment_id"],
          component |-> "backend",
          target_version |-> [tag |-> pending_update["image_tag"]],
          action |-> "deploy"]
    ELSE [has_update |-> FALSE]

\* GET /api/v1/clients/<client_id>/updates: the response body
get_updates(client_id) ==
    IF pending_update # None
    THEN [has_update |-> TRUE,
          deployment_id |-> pending_update["deployment_id"],
          component |-> "backend",
          target_version |-> [tag |-> pending_update["image_tag"]],
          action |-> "deploy"]
    ELSE [has_update |-> FALSE]

\* the entry stored for a report: {**data, 'reported_at': now}
StatusEntry(data) ==
    [k \in DOMAIN data \cup {"reported_at"} |->
        IF k = "reported_at" THEN isoformat(now) ELSE data[k]]

\* (mutant) the success report clears the slot only when it names the pending request
report_status_matching(client_id, data) ==
    /\ deployment_status' =
          [k \in DOMAIN deployment_status \cup {Get(data, "deployment_id")} |->
              IF k = Get(data, "deployment_id")
              THEN StatusEntry(data)
              ELSE deployment_status[k]]
    /\ pending_update' =
          IF /\ Get(data, "status") = "success"
             /\ pending_update # None
             /\ pending_update["deployment_id"] = Get(data, "deployment_id")
          THEN None ELSE pending_update

\* (mutant) the report is merged into the entry already stored (dict.update)
report_status_merge(client_id, data) ==
    LET key == Get(data, "deployment_id")
        old == IF key \in DOMAIN deployment_status THEN deployment_status[key] ELSE <<>>
    IN  /\ deployment_status' =
              [k \in DOMAIN deployment_status \cup {key} |->
                  IF k = key THEN StatusEntry(data) @@ old ELSE deployment_status[k]]
        /\ pending_update' =
              IF Get(data, "status") = "success" THEN None ELSE pending_update

\* (mutant) clearing the slot also drops the history of the cleared request
report_status_purge(client_id, data) ==
    LET stored == [k \in DOMAIN deployment_status \cup {Get(data, "deployment_id")} |->
                      IF k = Get(data, "deployment_id")
                      THEN StatusEntry(data)
                      ELSE deployment_status[k]]
        cleared == IF pending_update = None THEN {} ELSE {pending_update["deployment_id"]}
    IN  IF Get(data, "status") = "success"
        THEN /\ pending_update' = None
             /\ deployment_status' = [k \in DOMAIN stored \ cleared |-> stored[k]]
        ELSE /\ pending_update' = pending_update
             /\ deployment_status' = stored

\* (mutant) every terminal report, success or failed, clears the slot
report_status_terminal(client_id, data) ==
    /\ deployment_status' =
          [k \in DOMAIN deployment_status \cup {Get(data, "deployment_id")} |->
              IF k = Get(data, "deployment_id")
              THEN StatusEntry(data)
              ELSE deployment_status[k]]
    /\ pending_update' =
          IF Get(data, "status") \in {"success", "failed"} THEN None ELSE pending_update

\* POST /api/v1/clients/<client_id>/status
report_status(client_id, data) ==
    /\ deployment_status' =
          [k \in DOMAIN deployment_status \cup {Get(data, "deployment_id")} |->
              IF k = Get(data, "deployment_id")
              THEN StatusEntry(data)
              ELSE deployment_status[k]]
    /\ pending_update' =
          IF Get(data, "status") = "success" THEN None ELSE pending_update

\* the request created by a trigger: lines 100-106
NewRequest(data) ==
    [deployment_id |-> "dpl-" \o strftime(now),
     image_tag |-> IF "image_tag" \in DOMAIN data THEN data["image_tag"] ELSE DefaultTag,
     created_at |-> isoformat(now)]

\* (mutant) a trigger does not replace a request that is still pending
trigger_deployment_keep(data) ==
    /\ pending_update' = IF pending_update = None THEN NewRequest(data) ELSE pending_update
    /\ UNCHANGED deployment_status

\* POST /api/v1/admin/trigger-deployment
trigger_deployment(data) ==
    /\ pending_update' = NewRequest(data)
    /\ UNCHANGED deployment_status

\* GET /api/v1/admin/status: the response body
get_deployment_status ==
    [pending_update |-> pending_update, deployment_history |-> deployment_status]

\* GET /health: the response body
health == [status |-> "healthy"]

----------------------------------------------------------------------------
(* One request served: the handler runs, the exchange is recorded *)

\* the fields of the history entry stored under key k, none when there is no entry
EntryFields(k) == IF k \in DOMAIN deployment_status THEN DOMAIN deployment_status[k] ELSE {}

\* what the handler of a report found: the slot empty, holding the request the
\* report names, or holding another one
SlotFound(data) ==
    IF pending_update = None THEN "empty"
    ELSE IF pending_update["deployment_id"] = Get(data, "deployment_id") THEN "same"
    ELSE "other"

\* whether the entry the report replaces has a field the report lacks
ReplacesMore(data) ==
    ~ (EntryFields(Get(data, "deployment_id")) \subseteq DOMAIN data \cup {"reported_at"})

\* the id of the request a trigger finds in the slot, None when it is empty
SlotId == IF pending_update = None THEN NoneKey ELSE pending_update["deployment_id"]

ServeTrigger(data) ==
    /\ trigger_deployment(data)
    /\ request' = [route |-> "trigger-deployment", data |-> data, replaced |-> SlotId]
    /\ response' = [success |-> TRUE,
                    deployment_id |-> pending_update'["deployment_id"],
                    message |-> "Deployment to tag " \o pending_update'["image_tag"]
                                    \o " triggered"]
    /\ triggered' = [deployment_id |-> NewRequest(data)["deployment_id"],
                     tag |-> NewRequest(data)["image_tag"],
                     overwrote |-> /\ pending_update # None
                                   /\ pending_update["image_tag"] # NewRequest(data)["image_tag"]]
    /\ UNCHANGED <<now, handler>>

ServeUpdates(client_id) ==
    /\ request' = [route |-> "updates", client_id |-> client_id]
    /\ response' = get_updates(client_id)
    /\ UNCHANGED <<gcc_state, now, triggered, handler>>

ServeStatus(client_id, data) ==
    /\ report_status(client_id, data)
    /\ request' = [route |-> "status", client_id |-> client_id, data |-> data,
                   slot |-> SlotFound(data),
                   shrinks |-> ReplacesMore(data)]
    /\ response' = [status |-> "received"]
    /\ UNCHANGED <<now, triggered, handler>>

ServeAdminStatus ==
    /\ request' = [route |-> "admin-status"]
    /\ response' = get_deployment_status
    /\ UNCHANGED <<gcc_state, now, triggered, handler>>

ServeHealth ==
    /\ request' = [route |-> "health"]
    /\ response' = health
    /\ UNCHANGED <<gcc_state, now, triggered, handler>>

----------------------------------------------------------------------------
(* Requests of arbitrary clients (the admin, any poller, any reporter) *)

TriggerDeployment ==
    \E data \in TriggerBodies : ServeTrigger(data) /\ UNCHANGED agent_vars

GetPendingUpdate ==
    \E c \in ClientIds : ServeUpdates(c) /\ UNCHANGED agent_vars

ReportStatus ==
    \E c \in ClientIds, data \in ReportBodies : ServeStatus(c, data) /\ UNCHANGED agent_vars

GetStatus == ServeAdminStatus /\ UNCHANGED agent_vars

HealthCheck == ServeHealth /\ UNCHANGED agent_vars

\* the wall clock advances
Tick ==
    /\ now < MaxNow
    /\ now' = now + 1
    /\ UNCHANGED <<gcc_state, gcc_io, handler, agent_vars>>

----------------------------------------------------------------------------
(* get_updates run concurrently with other handlers.  The handler takes no *)
(* lock and reads the global pending_update three times: in the test of    *)
(* line 35, for the deployment_id of line 38 and for the tag of line 41;   *)
(* other handlers may run between two reads.  The request records the slot *)
(* values the handler saw.                                                 *)

\* pending_update[...] when pending_update is None
TypeError == "'NoneType' object is not subscriptable"

\* the handler returns: the exchange is recorded
UpdatesReturn(body, saw) ==
    /\ request' = [route |-> "updates", client_id |-> handler["client_id"], saw |-> saw]
    /\ response' = body
    /\ handler' = None

\* a poll arrives: line 35
UpdatesCheck ==
    /\ handler = None
    /\ \E c \in ClientIds :
          IF pending_update # None
          THEN /\ handler' = [client_id |-> c, at |-> "checked", saw |-> {pending_update}]
               /\ UNCHANGED <<request, response>>
          ELSE /\ request' = [route |-> "updates", client_id |-> c, saw |-> {None}]
               /\ response' = [has_update |-> FALSE]
               /\ handler' = None
    /\ UNCHANGED <<gcc_state, now, triggered, agent_vars>>

\* line 38: pending_update['deployment_id']
UpdatesReadId ==
    /\ handler # None
    /\ handler["at"] = "checked"
    /\ IF pending_update = None
       THEN UpdatesReturn([error |-> TypeError], handler["saw"] \cup {None})
       ELSE /\ handler' = [client_id |-> handler["client_id"],
                           at |-> "id_read",
                           saw |-> handler["saw"] \cup {pending_update},
                           deployment_id |-> pending_update["deployment_id"]]
            /\ UNCHANGED <<request, response>>
    /\ UNCHANGED <<gcc_state, now, triggered, agent_vars>>

\* line 41: pending_update['image_tag'], then the response of lines 36-44
UpdatesReadTag ==
    /\ handler # None
    /\ handler["at"] = "id_read"
    /\ IF pending_update = None
       THEN UpdatesReturn([error |-> TypeError], handler["saw"] \cup {None})
       ELSE UpdatesReturn([has_update |-> TRUE,
                           deployment_id |-> handler["deployment_id"],
                           component |-> "backend",
                           target_version |-> [tag |-> pending_update["image_tag"]],
                           action |-> "deploy"],
                          handler["saw"] \cup {pending_update})
    /\ UNCHANGED <<gcc_state, now, triggered, agent_vars>>

\* a success report of some client, served while a poll may be in flight
ReportSuccessAny ==
    \E c \in ClientIds, d \in ReportIds :
        /\ ServeStatus(c, [deployment_id |-> d, status |-> "success"])
        /\ UNCHANGED agent_vars

----------------------------------------------------------------------------
(* Deployment Agent: agent.py *)

CLIENT_ID == 101
max_attempts == 60
max_consecutive_errors == 10

\* the locals of execute_deployment before a call and after its return
NoLocals ==
    /\ deployment_id' = NoneKey
    /\ target_tag' = NoneKey
    /\ attempt' = 0
    /\ result' = None
    /\ error' = NoneKey

\* report_status (agent.py 160-191): build the payload and post it; the post
\* reaches the endpoint, or fails and is only logged
agent_report_status(status, message, kwargs, delivered) ==
    LET payload == [deployment_id |-> deployment_id,
                    client_id |-> CLIENT_ID,
                    status |-> status,
                    message |-> message] @@ kwargs
    IN  /\ reports' = Append(reports, payload)
        /\ IF delivered
           THEN ServeStatus(CLIENT_ID, payload)
           ELSE UNCHANGED gcc_vars

\* (mutant) a request whose attempt failed is not attempted again
main_iteration_no_retry(body, limit) ==
    /\ update_data' = body
    /\ IF "has_update" \in DOMAIN body /\ body["has_update"] = TRUE
       THEN IF /\ "deployment_id" \in DOMAIN body
               /\ "target_version" \in DOMAIN body
               /\ "tag" \in DOMAIN body["target_version"]
            THEN IF consecutive_errors = 0
                 THEN /\ deployment_id' = body["deployment_id"]
                      /\ target_tag' = body["target_version"]["tag"]
                      /\ reports' = <<>>
                      /\ tool_calls' = NoCalls
                      /\ pc' = "report_updating"
                      /\ UNCHANGED <<attempt, result, error, consecutive_errors>>
                 ELSE /\ pc' = "sleep"
                      /\ UNCHANGED <<deployment_id, target_tag, attempt, result, error,
                                     consecutive_errors, reports, tool_calls>>
            ELSE \* KeyError out of execute_deployment: lines 303-311
                 /\ consecutive_errors' = consecutive_errors + 1
                 /\ pc' = IF consecutive_errors + 1 >= max_consecutive_errors
                          THEN "exited" ELSE "sleep"
                 /\ UNCHANGED <<deployment_id, target_tag, attempt, result, error,
                                reports, tool_calls>>
       ELSE /\ consecutive_errors' = 0
            /\ pc' = "sleep"
            /\ UNCHANGED <<deployment_id, target_tag, attempt, result, error,
                           reports, tool_calls>>

\* main, lines 283-311, once poll_for_updates has returned body; the model
\* follows runs of fewer than limit failed attempts in a row
main_iteration(body, limit) ==
    /\ update_data' = body
    /\ IF "has_update" \in DOMAIN body /\ body["has_update"] = TRUE
       THEN IF /\ "deployment_id" \in DOMAIN body
               /\ "target_version" \in DOMAIN body
               /\ "tag" \in DOMAIN body["target_version"]
            THEN \* execute_deployment, lines 63-70
                 /\ consecutive_errors < limit
                 /\ deployment_id' = body["deployment_id"]
                 /\ target_tag' = body["target_version"]["tag"]
                 /\ reports' = <<>>
                 /\ tool_calls' = NoCalls
                 /\ pc' = "report_updating"
                 /\ UNCHANGED <<attempt, result, error, consecutive_errors>>
            ELSE \* KeyError out of execute_deployment: lines 303-311
                 /\ consecutive_errors' = consecutive_errors + 1
                 /\ pc' = IF consecutive_errors + 1 >= max_consecutive_errors
                          THEN "exited" ELSE "sleep"
                 /\ UNCHANGED <<deployment_id, target_tag, attempt, result, error,
                                reports, tool_calls>>
       ELSE /\ consecutive_errors' = 0
            /\ pc' = "sleep"
            /\ UNCHANGED <<deployment_id, target_tag, attempt, result, error,
                           reports, tool_calls>>

\* poll_for_updates answered with HTTP 200
PollAnswered ==
    /\ pc = "poll"
    /\ ServeUpdates(CLIENT_ID)
    /\ main_iteration(get_updates(CLIENT_ID), MaxErrors)

\* (mutant) a failed poll counts as an error of the loop
PollFailed_counted ==
    /\ pc = "poll"
    /\ update_data' = None
    /\ consecutive_errors' = consecutive_errors + 1
    /\ pc' = IF consecutive_errors + 1 >= max_consecutive_errors THEN "exited" ELSE "sleep"
    /\ UNCHANGED <<gcc_vars, deployment_id, target_tag, attempt, result, error,
                   reports, tool_calls>>

\* poll_for_updates failed (unreachable, timeout, non-200): it returns None
PollFailed ==
    /\ pc = "poll"
    /\ main_iteration(None, MaxErrors)
    /\ UNCHANGED gcc_vars

\* poll_for_updates answered with HTTP 200, in a long run of failed attempts
PollAnsweredMany ==
    /\ pc = "poll"
    /\ ServeUpdates(CLIENT_ID)
    /\ main_iteration(get_updates(CLIENT_ID), MaxFailures)

\* time.sleep(POLL_INTERVAL), line 298 or 311
Sleep ==
    /\ pc = "sleep"
    /\ pc' = "poll"
    /\ UNCHANGED <<gcc_vars, update_data, deployment_id, target_tag, attempt, result,
                   error, consecutive_errors, reports, tool_calls>>

\* line 74
report_updating(Delivery) ==
    /\ pc = "report_updating"
    /\ \E delivered \in Delivery :
          agent_report_status("in_progress", "Updating ArgoCD application", <<>>, delivered)
    /\ pc' = "set"
    /\ UNCHANGED <<update_data, deployment_id, target_tag, attempt, result, error,
                   consecutive_errors, tool_calls>>

\* (mutant) the exit code of the command is not looked at
tool_step_unchecked(step, failure, next, Results) ==
    \E r \in Results :
        /\ result' = r
        /\ tool_calls' = [tool_calls EXCEPT ![step] = @ + 1]
        /\ error' = error
        /\ pc' = next
        /\ UNCHANGED <<gcc_vars, update_data, deployment_id, target_tag, attempt,
                       consecutive_errors, reports>>

\* one of the two command steps: run the tool, raise on a non-zero exit
tool_step(step, failure, next, Results) ==
    \E r \in Results :
        /\ result' = r
        /\ tool_calls' = [tool_calls EXCEPT ![step] = @ + 1]
        /\ IF r["returncode"] # 0
           THEN /\ error' = failure \o r["stderr"]
                /\ pc' = "report_failed"
           ELSE /\ error' = error
                /\ pc' = next
        /\ UNCHANGED <<gcc_vars, update_data, deployment_id, target_tag, attempt,
                       consecutive_errors, reports>>

\* lines 77-89: argocd app set
set_target(Results) ==
    /\ pc = "set"
    /\ tool_step("set", "ArgoCD set failed: ", "sync", Results)

\* lines 92-103: argocd app sync
sync_trigger(Results) ==
    /\ pc = "sync"
    /\ tool_step("sync", "ArgoCD sync failed: ", "report_waiting", Results)

\* line 107 and the loop head of line 110
report_waiting(Delivery) ==
    /\ pc = "report_waiting"
    /\ \E delivered \in Delivery :
          agent_report_status("in_progress", "Waiting for pods to be healthy", <<>>, delivered)
    /\ pc' = "query"
    /\ attempt' = 0
    /\ UNCHANGED <<update_data, deployment_id, target_tag, result, error,
                   consecutive_errors, tool_calls>>

\* (mutant) Synced and Healthy each count once seen: the health of this result
\* or of the previous one, the sync status of this result or of the previous one
poll_convergence_sticky(r) ==
    LET IsStatus(x) == /\ "returncode" \in DOMAIN x
                       /\ x["returncode"] = 0
                       /\ "json" \in DOMAIN x["stdout"]
                       /\ "status" \in DOMAIN x["stdout"]["json"]
        Sync(x) == x["stdout"]["json"]["status"]["sync"]["status"]
        Health(x) == x["stdout"]["json"]["status"]["health"]["status"]
        seen == IF tool_calls["get"] > 0 /\ IsStatus(result) THEN {result, r} ELSE {r}
    IN  IF ~ IsStatus(r) THEN [do |-> "sleep"]
        ELSE IF /\ \E x \in seen : Sync(x) = "Synced"
                /\ \E x \in seen : Health(x) = "Healthy"
             THEN [do |-> "converged"]
             ELSE IF Health(r) = "Degraded"
                  THEN [do |-> "raise", error |-> "Deployment health degraded"]
                  ELSE [do |-> "sleep"]

\* what one loop iteration does with the result of argocd app get: lines 118-133
\* ("converged", "raise" with the exception text, or "sleep")
poll_convergence(r) ==
    IF r["returncode"] = 0
    THEN IF "json" \notin DOMAIN r["stdout"]
         THEN [do |-> "raise", error |-> JSONDecodeError]
         ELSE LET app_status == r["stdout"]["json"]
              IN  IF "status" \notin DOMAIN app_status
                  THEN [do |-> "raise", error |-> "'status'"]
                  ELSE LET sync_status == app_status["status"]["sync"]["status"]
                           health_status == app_status["status"]["health"]["status"]
                       IN  IF sync_status = "Synced" /\ health_status = "Healthy"
                           THEN [do |-> "converged"]
                           ELSE IF health_status = "Degraded"
                                THEN [do |-> "raise", error |-> "Deployment health degraded"]
                                ELSE [do |-> "sleep"]
    ELSE [do |-> "sleep"]

\* one iteration of the loop of lines 110-133
query(Results) ==
    /\ pc = "query"
    /\ attempt < max_attempts
    /\ \E r \in Results :
          LET out == poll_convergence(r)
          IN  /\ result' = r
              /\ tool_calls' = [tool_calls EXCEPT !["get"] = @ + 1]
              /\ pc' = CASE out["do"] = "converged" -> "report_success"
                         [] out["do"] = "raise" -> "report_failed"
                         [] OTHER -> "query"
              /\ error' = IF out["do"] = "raise" THEN out["error"] ELSE error
              /\ attempt' = IF out["do"] = "sleep" THEN attempt + 1 ELSE attempt
    /\ UNCHANGED <<gcc_vars, update_data, deployment_id, target_tag,
                   consecutive_errors, reports>>

\* (mutant) the loop has no else branch: running out falls through to success
Timeout_fallthrough ==
    /\ pc = "query"
    /\ attempt >= max_attempts
    /\ pc' = "report_success"
    /\ UNCHANGED <<gcc_vars, update_data, deployment_id, target_tag, attempt, result,
                   error, consecutive_errors, reports, tool_calls>>

\* the loop ran out: the else branch of line 134
Timeout ==
    /\ pc = "query"
    /\ attempt >= max_attempts
    /\ error' = "Timeout waiting for deployment"
    /\ pc' = "report_failed"
    /\ UNCHANGED <<gcc_vars, update_data, deployment_id, target_tag, attempt, result,
                   consecutive_errors, reports, tool_calls>>

\* (mutant) the success report goes out without deployed_version
report_success_no_version(Delivery) ==
    /\ pc = "report_success"
    /\ \E delivered \in Delivery :
          agent_report_status("success", "Deployment completed successfully", <<>>, delivered)
    /\ NoLocals
    /\ consecutive_errors' = 0
    /\ pc' = "sleep"
    /\ UNCHANGED <<update_data, tool_calls>>

\* lines 142-149, and lines 287-298 of main
report_success(Delivery) ==
    /\ pc = "report_success"
    /\ \E delivered \in Delivery :
          agent_report_status("success", "Deployment completed successfully",
                              [deployed_version |-> target_tag], delivered)
    /\ NoLocals
    /\ consecutive_errors' = 0
    /\ pc' = "sleep"
    /\ UNCHANGED <<update_data, tool_calls>>

\* lines 151-158, and lines 287-298 of main
report_failed(Delivery) ==
    /\ pc = "report_failed"
    /\ \E delivered \in Delivery :
          agent_report_status("failed", "Deployment failed: " \o error, <<>>, delivered)
    /\ NoLocals
    /\ consecutive_errors' = consecutive_errors + 1
    /\ pc' = "sleep"
    /\ UNCHANGED <<update_data, tool_calls>>

\* subprocess.run (lines 84, 98, 116) is called without a timeout: when the tool
\* never answers, the call never returns and the agent waits in it
ToolNeverAnswers ==
    /\ pc \in {"set", "sync", "query"}
    /\ pc = "query" => attempt < max_attempts
    /\ tool_calls' = [tool_calls EXCEPT ![IF pc = "query" THEN "get" ELSE pc] = @ + 1]
    /\ pc' = "blocked"
    /\ UNCHANGED <<gcc_vars, update_data, deployment_id, target_tag, attempt, result,
                   error, consecutive_errors, reports>>

----------------------------------------------------------------------------
(* Initial state: both processes freshly started *)

GccInit ==
    /\ pending_update = None
    /\ deployment_status = <<>>
    /\ now = 0
    /\ request = None
    /\ response = None
    /\ triggered = None
    /\ handler = None

AgentInit ==
    /\ pc = "poll"
    /\ update_data = None
    /\ deployment_id = NoneKey
    /\ target_tag = NoneKey
    /\ attempt = 0
    /\ result = None
    /\ error = NoneKey
    /\ consecutive_errors = 0
    /\ reports = <<>>
    /\ tool_calls = NoCalls

Init == GccInit /\ AgentInit

----------------------------------------------------------------------------
(* The Control Endpoint alone, driven by arbitrary clients *)

GccNext ==
    \/ TriggerDeployment
    \/ GetPendingUpdate
    \/ ReportStatus
    \/ GetStatus
    \/ HealthCheck
    \/ Tick

SpecGcc == Init /\ [][GccNext]_vars

(* The Control Endpoint serving polls that overlap triggers and success reports *)

RaceNext ==
    \/ TriggerDeployment
    \/ ReportSuccessAny
    \/ Tick
    \/ UpdatesCheck
    \/ UpdatesReadId
    \/ UpdatesReadTag

SpecRace == Init /\ [][RaceNext]_vars

----------------------------------------------------------------------------
(* The agent's steps, with every outcome of the tool and of the transport *)

ReportUpdating == report_updating(BOOLEAN)
SetTarget == set_target(CommandResults)
SyncTrigger == sync_trigger(CommandResults)
ReportWaiting == report_waiting(BOOLEAN)
Query == query(QueryResults)
ReportSuccess == report_success(BOOLEAN)
ReportFailed == report_failed(BOOLEAN)

AgentNext ==
    \/ PollAnswered
    \/ PollFailed
    \/ Sleep
    \/ ReportUpdating
    \/ SetTarget
    \/ SyncTrigger
    \/ ReportWaiting
    \/ Query
    \/ Timeout
    \/ ReportSuccess
    \/ ReportFailed

(* The whole system: the admin triggers, the clock, the agent and its tool *)

Next ==
    \/ TriggerDeployment
    \/ Tick
    \/ AgentNext

Spec == Init /\ [][Next]_vars

(* The agent at work while the admin triggers, all within one clock second *)

NextAgent ==
    \/ TriggerDeployment
    \/ AgentNext

SpecAgent == Init /\ [][NextAgent]_vars

----------------------------------------------------------------------------
(* The scenario of a reliable transport and a tool whose commands succeed  *)
(* and whose status query reports a rollout going on or done; the rollout  *)
(* may still take longer than the agent waits                              *)

ReportUpdatingOk == report_updating({TRUE})
SetTargetOk == set_target(CommandOk)
SyncTriggerOk == sync_trigger(CommandOk)
ReportWaitingOk == report_waiting({TRUE})
QueryStatus == query(RolloutResults)
ReportSuccessOk == report_success({TRUE})
ReportFailedOk == report_failed({TRUE})

NextReliable ==
    \/ TriggerDeployment
    \/ Tick
    \/ PollAnswered
    \/ Sleep
    \/ ReportUpdatingOk
    \/ SetTargetOk
    \/ SyncTriggerOk
    \/ ReportWaitingOk
    \/ QueryStatus
    \/ Timeout
    \/ ReportSuccessOk
    \/ ReportFailedOk

SpecReliable == Init /\ [][NextReliable]_vars

----------------------------------------------------------------------------
(* The same scenario with a tool that may also never answer a call.  The   *)
(* agent process keeps running: a step of the agent that is possible is    *)
(* eventually taken                                                        *)

AgentHang ==
    \/ PollAnswered
    \/ Sleep
    \/ ReportUpdatingOk
    \/ SetTargetOk
    \/ SyncTriggerOk
    \/ ReportWaitingOk
    \/ QueryStatus
    \/ Timeout
    \/ ReportSuccessOk
    \/ ReportFailedOk
    \/ ToolNeverAnswers

NextHang ==
    \/ TriggerDeployment
    \/ AgentHang

SpecHang == Init /\ [][NextHang]_vars /\ WF_vars(AgentHang)

----------------------------------------------------------------------------
(* The scenario of a tool that keeps failing: set-target succeeds or fails, *)
(* trigger-sync fails; the transport is reliable                            *)

SyncTriggerFails == sync_trigger(CommandResults \ CommandOk)

NextFailing ==
    \/ TriggerDeployment
    \/ PollAnsweredMany
    \/ Sleep
    \/ ReportUpdatingOk
    \/ SetTarget
    \/ SyncTriggerFails
    \/ ReportFailedOk

SpecFailing == Init /\ [][NextFailing]_vars

----------------------------------------------------------------------------
(* Properties of the Control Endpoint *)

\* the route of the last request served, None before the first one
Route == IF "route" \in DOMAIN request THEN request["route"] ELSE NoneKey

\* the last request served was a status report with status success
SuccessReported == Route = "status" /\ Get(request["data"], "status") = "success"

\* C1: every poll answered with has_update = true carries the deployment_id and
\* the tag of the most recent trigger call, never those of a replaced request.
C1_PollReturnsLatestTrigger ==
    (Route = "updates" /\ response["has_update"])
        => /\ triggered # None
           /\ response["deployment_id"] = triggered["deployment_id"]
           /\ response["target_version"]["tag"] = triggered["tag"]

\* C1 witness: a poll answered with the request of a trigger that replaced a
\* pending request with another tag.
C1_Witness ==
    /\ Route = "updates"
    /\ response["has_update"]
    /\ triggered # None
    /\ triggered["overwrote"]
    /\ response["target_version"]["tag"] = triggered["tag"]

\* C2: after a status report with status success the pending slot is empty,
\* whatever deployment_id the report carries, and a poll of any client is
\* answered has_update = false.
C2_SuccessClearsSlot ==
    SuccessReported
        => /\ pending_update = None
           /\ \A c \in ClientIds : get_updates(c) = [has_update |-> FALSE]

\* C2 witness: a success report without any deployment_id found a request
\* pending and left the slot empty.
C2_Witness ==
    /\ SuccessReported
    /\ "deployment_id" \notin DOMAIN request["data"]
    /\ request["slot"] = "other"
    /\ pending_update = None

\* C3: the slot goes from holding a request to empty only by a success report
\* that carries the deployment_id of that request.
C3_ClearedOnlyByOwnReport ==
    (SuccessReported /\ request["slot"] # "empty" /\ pending_update = None)
        => request["slot"] = "same"

\* C4: the entry stored under the deployment_id of the last report has exactly
\* the fields of that report plus reported_at, with the values of the report and
\* a timestamp of the endpoint's clock; nothing of an earlier entry survives.
C4_EntryIsLastReport ==
    Route = "status"
        => LET data == request["data"]
               key == Get(data, "deployment_id")
               history == get_deployment_status["deployment_history"]
           IN  /\ key \in DOMAIN history
               /\ DOMAIN history[key] = DOMAIN data \cup {"reported_at"}
               /\ \A f \in DOMAIN data \ {"reported_at"} : history[key][f] = data[f]
               /\ history[key]["reported_at"] \in {isoformat(t) : t \in 0..now}

\* C4 witness: a report without deployed_version replaced an entry that had
\* fields the report lacks.
C4_Witness ==
    /\ Route = "status"
    /\ request["shrinks"]
    /\ "deployed_version" \notin DOMAIN request["data"]
    /\ "deployment_id" \in DOMAIN request["data"]

\* C5: no step removes a key from the status history.
C5_HistoryOnlyGrows ==
    [][DOMAIN deployment_status \subseteq DOMAIN deployment_status']_vars

\* C5 witness: a success report cleared a pending request whose history entry
\* (and that of another id) is still stored.
C5_Witness ==
    /\ SuccessReported
    /\ request["slot"] = "other"
    /\ pending_update = None
    /\ triggered # None
    /\ triggered["deployment_id"] \in DOMAIN deployment_status
    /\ Cardinality(DOMAIN deployment_status) >= 2

----------------------------------------------------------------------------
(* Properties of the agent's workflow *)

Last(seq) == seq[Len(seq)]
StatusesOf(seq) == [i \in 1..Len(seq) |-> seq[i]["status"]]

\* the agent is inside execute_deployment
InAttempt == pc \in {"report_updating", "set", "sync", "report_waiting", "query",
                     "report_success", "report_failed"}

\* execute_deployment has returned and main has not started another attempt
AttemptOver == pc \in {"sleep", "poll"} /\ reports # <<>>

\* execute_deployment has just returned: main still holds the update it ran on
HasUpdate(u) == "has_update" \in DOMAIN u /\ u["has_update"]
JustOver == pc = "sleep" /\ reports # <<>> /\ HasUpdate(update_data)

\* a subprocess result that is a status document
IsStatus(r) ==
    /\ "returncode" \in DOMAIN r
    /\ r["returncode"] = 0
    /\ "json" \in DOMAIN r["stdout"]
    /\ "status" \in DOMAIN r["stdout"]["json"]
SyncOf(r) == r["stdout"]["json"]["status"]["sync"]["status"]
HealthOf(r) == r["stdout"]["json"]["status"]["health"]["status"]
IsConverged(r) == IsStatus(r) /\ SyncOf(r) = "Synced" /\ HealthOf(r) = "Healthy"
IsDegraded(r) == IsStatus(r) /\ HealthOf(r) = "Degraded"

\* this step ran a status query
QueryStep == tool_calls'["get"] = tool_calls["get"] + 1

\* C6: a status query whose result is Synced and Healthy ends the loop in
\* success, and only such a result does; a query whose result is Degraded ends
\* the attempt in failure; and a query is issued only while no earlier result of
\* the attempt was Synced-and-Healthy or Degraded.
C6_ConvergenceInOneResult ==
    [][QueryStep =>
          /\ IsConverged(result') <=> pc' = "report_success"
          /\ IsDegraded(result') =>
                /\ pc' = "report_failed"
                /\ error' = "Deployment health degraded"
                /\ attempt' = attempt
          /\ tool_calls["get"] > 0 => ~ IsConverged(result) /\ ~ IsDegraded(result)
      ]_vars

\* C6 witness: the second query of an attempt converged, the first did not.
C6_Witness ==
    /\ pc = "report_success"
    /\ tool_calls["get"] = 2
    /\ attempt = 1
    /\ IsConverged(result)

\* C6, second case: the first query was (Synced, Degraded) and the attempt failed.
C6_WitnessDegraded ==
    /\ pc = "report_failed"
    /\ tool_calls["get"] = 1
    /\ attempt = 0
    /\ IsDegraded(result) /\ SyncOf(result) = "Synced"

\* the failure the agent reports (or is about to report) embeds this error text
FailedWith(text) ==
    \/ pc = "report_failed" /\ error = text
    \/ /\ reports # <<>>
       /\ Last(reports)["status"] = "failed"
       /\ Last(reports)["message"] = "Deployment failed: " \o text

SetFailed == FailedWith("ArgoCD set failed: rpc error")
SyncFailed == FailedWith("ArgoCD sync failed: rpc error")

\* C7: set-target, trigger-sync and the status queries run in this order, each
\* command once; a non-zero exit of set-target or trigger-sync takes the attempt
\* straight to its failed report; after a failed set-target neither trigger-sync
\* nor a query has run, after a failed trigger-sync no query has run, and the
\* attempt ends with one in_progress and exactly one failed report.
C7_CommandFailureAborts ==
    /\ [](/\ tool_calls["set"] <= 1 /\ tool_calls["sync"] <= 1
          /\ tool_calls["sync"] > 0 => tool_calls["set"] = 1
          /\ tool_calls["get"] > 0 => tool_calls["sync"] = 1
          /\ SetFailed => tool_calls = [set |-> 1, sync |-> 0, get |-> 0]
          /\ SyncFailed => tool_calls = [set |-> 1, sync |-> 1, get |-> 0]
          /\ (AttemptOver /\ (SetFailed \/ SyncFailed))
                => StatusesOf(reports) = <<"in_progress", "failed">>)
    /\ [][(/\ pc \in {"set", "sync"}
           /\ pc' # pc
           /\ result'["returncode"] # 0)
             => /\ pc' = "report_failed"
                /\ error' = (IF pc = "set" THEN "ArgoCD set failed: "
                                           ELSE "ArgoCD sync failed: ") \o result'["stderr"]
         ]_vars

\* C7 witness: an attempt is over whose set-target step failed.
C7_Witness ==
    /\ AttemptOver
    /\ SetFailed
    /\ tool_calls = [set |-> 1, sync |-> 0, get |-> 0]

TimedOut == FailedWith("Timeout waiting for deployment")

\* C8: when the loop has used up its max_attempts iterations the next step is
\* the timeout; an attempt that timed out has issued exactly max_attempts status
\* queries, and it ends with the reports in_progress, in_progress, failed, the
\* last one carrying the timeout text; no attempt issues more queries.
C8_TimeoutAfterMaxAttempts ==
    /\ [](/\ tool_calls["get"] <= max_attempts
          /\ TimedOut => tool_calls["get"] = max_attempts
          /\ (AttemptOver /\ TimedOut)
                => /\ StatusesOf(reports) = <<"in_progress", "in_progress", "failed">>
                   /\ Last(reports)["message"]
                         = "Deployment failed: Timeout waiting for deployment")
    /\ [][(pc = "query" /\ attempt >= max_attempts /\ pc' # pc)
             => /\ pc' = "report_failed"
                /\ error' = "Timeout waiting for deployment"
                /\ tool_calls' = tool_calls
         ]_vars

\* C8 witness: an attempt is over that timed out after max_attempts queries.
C8_Witness ==
    /\ AttemptOver
    /\ TimedOut
    /\ tool_calls["get"] = max_attempts

\* the exception texts execute_deployment can raise
ErrorTexts ==
    {"ArgoCD set failed: rpc error", "ArgoCD sync failed: rpc error",
     "Deployment health degraded", "Timeout waiting for deployment",
     JSONDecodeError, "'status'"}

IsTerminal(p) == p["status"] \in {"success", "failed"}

\* C10: while an attempt runs every report so far is in_progress; once it is
\* over its last report, and only that one, is terminal: success with
\* deployed_version the tag of the update, or failed with a message that embeds
\* the error raised and without deployed_version.
C10_OneTerminalReport ==
    /\ [](/\ InAttempt => \A i \in 1..Len(reports) : reports[i]["status"] = "in_progress"
          /\ AttemptOver =>
                /\ \A i \in 1..Len(reports) - 1 : reports[i]["status"] = "in_progress"
                /\ IsTerminal(Last(reports))
                /\ Last(reports)["status"] = "success" =>
                      "deployed_version" \in DOMAIN Last(reports)
                /\ Last(reports)["status"] = "failed" =>
                      /\ "deployed_version" \notin DOMAIN Last(reports)
                      /\ \E e \in ErrorTexts :
                            Last(reports)["message"] = "Deployment failed: " \o e
          /\ JustOver =>
                /\ Last(reports)["deployment_id"] = update_data["deployment_id"]
                /\ Last(reports)["status"] = "success" =>
                      Last(reports)["deployed_version"] = update_data["target_version"]["tag"])
    /\ [][(pc = "report_failed" /\ pc' # pc)
             => Last(reports')["message"] = "Deployment failed: " \o error
         ]_vars
    /\ [][(InAttempt /\ ~ InAttempt') => (AttemptOver' /\ Len(reports') = Len(reports) + 1)
         ]_vars

\* C10 witness: an attempt is over that failed on a Degraded health after two
\* in_progress reports.
C10_Witness ==
    /\ AttemptOver
    /\ StatusesOf(reports) = <<"in_progress", "in_progress", "failed">>
    /\ Last(reports)["message"] = "Deployment failed: Deployment health degraded"

----------------------------------------------------------------------------
(* The end-to-end scenario *)

\* C9: with a reliable transport and a succeeding tool, (1) a trigger leaves its
\* request pending, a poll while a request is pending is answered with that
\* request, and it is that of the latest trigger; (2) an attempt
\* that converged has reported in_progress, in_progress, success, the success
\* report carrying the polled tag as deployed_version, and the endpoint stores
\* that report; (3) after the success report the slot is empty, and while it is
\* empty every step but a trigger leaves it empty and every poll is answered
\* has_update = false.
C9_Scenario ==
    /\ [](/\ Route = "trigger-deployment"
                => /\ pending_update # None
                   /\ pending_update["deployment_id"] = triggered["deployment_id"]
                   /\ pending_update["image_tag"] = triggered["tag"]
          /\ (Route = "updates" /\ HasUpdate(update_data))
                => /\ update_data["deployment_id"] = triggered["deployment_id"]
                   /\ update_data["target_version"]["tag"] = triggered["tag"]
          /\ (AttemptOver /\ Last(reports)["status"] = "success")
                => StatusesOf(reports) = <<"in_progress", "in_progress", "success">>
          /\ (JustOver /\ Last(reports)["status"] = "success")
                => /\ Last(reports)["deployed_version"] = update_data["target_version"]["tag"]
                   /\ deployment_status[update_data["deployment_id"]]["status"] = "success"
                   /\ deployment_status[update_data["deployment_id"]]["deployed_version"]
                         = update_data["target_version"]["tag"]
          /\ pc = "report_success" => tool_calls["set"] = 1 /\ tool_calls["sync"] = 1
          /\ SuccessReported => pending_update = None)
    /\ [][(pending_update = None /\ Route' # "trigger-deployment")
             => /\ pending_update' = None
                /\ (pc = "poll" /\ pc' # pc) => update_data' = [has_update |-> FALSE]
         ]_vars
    /\ [][(pending_update # None /\ pc = "poll" /\ pc' # pc)
             => /\ HasUpdate(update_data')
                /\ update_data'["deployment_id"] = pending_update["deployment_id"]
                /\ update_data'["target_version"]["tag"] = pending_update["image_tag"]
                /\ pc' = "report_updating"
         ]_vars

\* C9 witness: the agent deployed the tag of the one trigger, reported success,
\* and its next poll was answered has_update = false.
C9_Witness ==
    /\ AttemptOver
    /\ StatusesOf(reports) = <<"in_progress", "in_progress", "success">>
    /\ Last(reports)["deployed_version"] = "v2.1.0"
    /\ triggered["tag"] = "v2.1.0"
    /\ ~ triggered["overwrote"]
    /\ Route = "updates"
    /\ update_data = [has_update |-> FALSE]
    /\ pc = "sleep"

----------------------------------------------------------------------------
(* Properties of the agent's outer loop *)

\* the last poll failed: poll_for_updates returned None and main went to sleep
PollJustFailed == pc = "sleep" /\ update_data = None

\* C11: a poll that fails with a transport error counts as one consecutive
\* error, so after a failed poll the counter is at least one (and ten failed
\* polls in a row would reach the threshold).
C11_FailedPollCounts ==
    PollJustFailed => consecutive_errors >= 1

\* C12: every attempt that starts reaches its terminal report, also when the
\* external tool never answers a call (the call is bounded by a timeout and the
\* timeout fails the step).
C12_AttemptTerminates ==
    InAttempt ~> AttemptOver

\* C14: two distinct trigger calls never produce the same deployment_id: the
\* id a trigger hands out differs from the id of the request it replaces, also
\* when both calls fall within the same clock second.
C14_TriggerIdsDiffer ==
    Route = "trigger-deployment" => response["deployment_id"] # request["replaced"]

\* C15: in every state all clients get the same answer to a poll; the answer a
\* client was given is the one any other client gets next, and a poll changes
\* neither the slot nor the history, so it hides nothing from another client.
C15_PollIgnoresClient ==
    /\ [](\A c1, c2 \in ClientIds : get_updates(c1) = get_updates(c2))
    /\ [](Route = "updates" => \A c \in ClientIds : response = get_updates(c))
    /\ [][Route' = "updates" => UNCHANGED gcc_state]_vars

\* C15 witness: a client other than the agent polled, was announced the pending
\* request, and the request is still pending for the next poller.
C15_Witness ==
    /\ Route = "updates"
    /\ request["client_id"] # CLIENT_ID
    /\ response["has_update"]
    /\ pending_update # None
    /\ response["deployment_id"] = pending_update["deployment_id"]

\* the status of the report the last request carried, None for other requests
ReportedStatus == IF Route = "status" THEN Get(request["data"], "status") ELSE NoneKey

\* C16: the slot changes only by a trigger, which fills it, and by a success
\* report, which empties it; polls, admin status, health checks and reports
\* whose status is in_progress, failed or missing leave it as it is; and the
\* history changes only by a status report.
C16_FrameOfHandlers ==
    /\ [][pending_update' # pending_update
            => /\ now' = now
               /\ \/ Route' = "trigger-deployment" /\ pending_update' # None
                  \/ ReportedStatus' = "success" /\ pending_update' = None
         ]_vars
    /\ [][(Route' = "status" /\ ReportedStatus' # "success")
            => pending_update' = pending_update
         ]_vars
    /\ [][Route' \in {"updates", "admin-status", "health"} => UNCHANGED gcc_state]_vars
    /\ [][deployment_status' # deployment_status => now' = now /\ Route' = "status"]_vars

\* C16 witness: a failed report for the pending request was served and the
\* request is still pending.
C16_Witness ==
    /\ ReportedStatus = "failed"
    /\ request["slot"] = "same"
    /\ pending_update # None
    /\ deployment_status[pending_update["deployment_id"]]["status"] = "failed"

----------------------------------------------------------------------------
(* Properties of overlapping handlers *)

\* the body get_updates returns when it runs on the slot value p
AnswerFor(p) ==
    IF p = None
    THEN [has_update |-> FALSE]
    ELSE [has_update |-> TRUE,
          deployment_id |-> p["deployment_id"],
          component |-> "backend",
          target_version |-> [tag |-> p["image_tag"]],
          action |-> "deploy"]

\* C13: a poll handler that overlaps triggers and success reports answers as if
\* it had run on one snapshot of the slot: its response is the answer for one of
\* the slot values it saw, so it is has_update = false or carries the id and the
\* tag of one request, and it never fails on a slot cleared under it.
C13_PollOnOneSnapshot ==
    (Route = "updates" /\ "saw" \in DOMAIN request)
        => \E p \in request["saw"] : response = AnswerFor(p)

----------------------------------------------------------------------------
(* Properties of retries *)

\* C17: an attempt runs set-target and trigger-sync at most once; its failed
\* report leaves the slot as it is; the slot changes only by a trigger or a
\* success report; and a poll answered while a request is pending starts a new
\* attempt for that request, however many attempts have failed before.
C17_RetryByOuterLoop ==
    /\ [](tool_calls["set"] <= 1 /\ tool_calls["sync"] <= 1)
    /\ [][(pc = "report_failed" /\ pc' # pc)
            => /\ pending_update' = pending_update
               /\ pc' = "sleep"
         ]_vars
    /\ [][pending_update' # pending_update
            => (Route' = "trigger-deployment" \/ ReportedStatus' = "success")
         ]_vars
    /\ [][(pc = "poll" /\ pc' # pc /\ pending_update # None)
            => /\ pc' = "report_updating"
               /\ deployment_id' = pending_update["deployment_id"]
               /\ target_tag' = pending_update["image_tag"]
               /\ reports' = <<>>
               /\ tool_calls' = NoCalls
         ]_vars

\* C17 witness: the agent starts one more attempt for the pending request after
\* max_consecutive_errors attempts for it have failed in a row.
C17_Witness ==
    /\ pc = "report_updating"
    /\ consecutive_errors >= max_consecutive_errors
    /\ pending_update # None
    /\ deployment_id = pending_update["deployment_id"]
    /\ deployment_status[deployment_id]["status"] = "failed"

\* C20: while the polling loop runs, the consecutive-error counter is below the
\* threshold: the tenth failed attempt in a row terminates the agent.
C20_CounterBelowThreshold ==
    pc # "exited" => consecutive_errors < max_consecutive_errors

\* C18: a status query that fails (non-zero exit code, or output that is no
\* status document) aborts the attempt: while the attempt goes on polling, its
\* last query returned a status document with exit code 0.
C18_QueryErrorAborts ==
    (pc = "query" /\ tool_calls["get"] > 0) => IsStatus(result)

\* C19: the agent never terminates on a transport error: a failed poll sends
\* the loop to sleep with the error counter at zero, whatever it was before; a
\* report that is not delivered leaves the attempt on the path it takes when
\* the report is delivered (set-target after the first report, the status
\* queries after the second, the end of the attempt after the terminal one).
C19_TransportErrorsNonFatal ==
    /\ [](pc # "exited")
    /\ [][(pc = "poll" /\ pc' # pc /\ update_data' = None)
            => /\ pc' = "sleep"
               /\ consecutive_errors' = 0
               /\ reports' = reports
         ]_vars
    /\ [][(Len(reports') = Len(reports) + 1 /\ UNCHANGED gcc_vars)
            => /\ pc = "report_updating" => pc' = "set"
               /\ pc = "report_waiting" => pc' = "query"
               /\ pc \in {"report_success", "report_failed"} => pc' = "sleep"
               /\ pc \in {"report_updating", "report_waiting", "report_success",
                           "report_failed"}
         ]_vars

\* C19 witness: both in_progress reports of an attempt were lost and the
\* attempt is polling for convergence.
C19_Witness ==
    /\ pc = "query"
    /\ Len(reports) = 2
    /\ tool_calls["get"] > 0
    /\ deployment_id \notin DOMAIN deployment_status

\* C19, second case: the poll after a failed attempt failed too, and the loop
\* sleeps with the counter back at zero.
C19_WitnessPoll ==
    /\ PollJustFailed
    /\ reports # <<>>
    /\ Last(reports)["status"] = "failed"
    /\ consecutive_errors = 0

====
